---- MODULE Spec2Model ----
(***************************************************************************)
(* Model of src/script.js: a scroll-driven image-sequence player.          *)
(*                                                                         *)
(* The script is single threaded; every event handler (image load, rAF     *)
(* tick, scroll, click, touchstart, wheel, resize) runs to completion, so  *)
(* each handler is one action.  Handlers call each other (the last load    *)
(* calls onAllLoaded, which calls startIntro, which calls animateScroll),  *)
(* so the functions of the script are operators on a record `w` holding    *)
(* the mutable state they touch, and an action commits the record its      *)
(* handler ends with.                                                      *)
(*                                                                         *)
(* Browser behaviour the script relies on:                                 *)
(*  - window.scrollTo clamps to the scrollable extent and, when the offset *)
(*    changes, queues a scroll event that is delivered later, never inside *)
(*    the handler that called scrollTo;                                    *)
(*  - an <img> whose load failed has complete === true and is "broken":    *)
(*    drawImage throws InvalidStateError for it;                           *)
(*  - assigning canvas.width / canvas.height clears the canvas.            *)
(***************************************************************************)
EXTENDS Integers, Sequences, FiniteSets, TLC

\* -------------------------------------------------------------- constants
\* CONFIG.frameCount is 145 in the source; the state machine is explored with
\* this many frames (every frame has its own load state).
frameCount == 3
\* CONFIG.frameCount as written, used where the 145-frame mapping is stated.
ConfigFrameCount == 145
\* CONFIG.scrollLengthHSV: height of the scroll spacer in vh.
scrollLengthHSV == 600
\* CONFIG.duration: duration of an auto-play in ms.
duration == 5000

\* ----------------------------------------------------------------- bounds
\* Time between two animation frames is a multiple 1..MaxTickMult of TickStep ms.
TickStep == 2500
MaxTickMult == 2
\* The user scrolls to k/ScrollSteps of the scrollable extent, k in 0..ScrollSteps.
ScrollSteps == 2
\* Canvas and image sizes explored for the cover-fit crop are 1..MaxDim.
MaxDim == 4

\* Viewport sizes (window.innerWidth, window.innerHeight) of the main model.
InnerWidths == {6}
InnerHeights == {4, 8}
\* document.body.scrollHeight when the spacer's CSS does not take effect.
CollapsedHeights == {6, 8}
\* Natural size of the decoded frames in the main model.
FrameSize == [w |-> 4, h |-> 3]

Frames == 0 .. (frameCount - 1)
Phases == {"LOADING", "INTRO", "WAITING_FOR_REPLAY", "REPLAY_PLAYING", "MANUAL"}
Blank == -1

VARIABLES
    images,         \* state.images: per frame "loading" | "loaded" | "broken"
    loadedCount,    \* state.loadedCount
    currentFrame,   \* state.currentFrame
    phase,          \* state.phase
    rafId,          \* state.rafId (0 is null)
    noScroll,       \* document.body.classList contains 'no-scroll'
    scrollY,        \* window.scrollY
    pendingScroll,  \* origins of the queued, not yet delivered scroll event
    rafQueue,       \* pending requestAnimationFrame callbacks (loop closures)
    canvas,         \* canvas size, the frame it shows and the crop it was drawn with
    threw,          \* the last handler ended with an uncaught exception
    replayCount,    \* number of "Triggering Replay" log lines
    phaseLog,       \* the values state.phase has been given, in order
    innerWidth,     \* window.innerWidth
    innerHeight,    \* window.innerHeight
    bodyHeight,     \* 0: the spacer is laid out; else the collapsed body height
    imgSize,        \* natural size of the frames
    now,            \* performance.now()
    lastEvent       \* the kind of the event handled last

vars == <<images, loadedCount, currentFrame, phase, rafId, noScroll, scrollY,
          pendingScroll, rafQueue, canvas, threw, replayCount, phaseLog,
          innerWidth, innerHeight, bodyHeight, imgSize, now, lastEvent>>

env == <<innerWidth, innerHeight, bodyHeight, imgSize>>

\* The record the script's functions work on.
W ==
    [images |-> images, loadedCount |-> loadedCount, currentFrame |-> currentFrame,
     phase |-> phase, rafId |-> rafId, noScroll |-> noScroll, scrollY |-> scrollY,
     pendingScroll |-> pendingScroll, rafQueue |-> rafQueue, canvas |-> canvas,
     threw |-> threw, replayCount |-> replayCount, phaseLog |-> phaseLog]

Commit(w) ==
    \E r \in {w} :
    /\ images' = r.images
    /\ loadedCount' = r.loadedCount
    /\ currentFrame' = r.currentFrame
    /\ phase' = r.phase
    /\ rafId' = r.rafId
    /\ noScroll' = r.noScroll
    /\ scrollY' = r.scrollY
    /\ pendingScroll' = r.pendingScroll
    /\ rafQueue' = r.rafQueue
    /\ canvas' = r.canvas
    /\ threw' = r.threw
    /\ replayCount' = r.replayCount
    /\ phaseLog' = r.phaseLog

\* ------------------------------------------------------------- arithmetic
Min(a, b) == IF a < b THEN a ELSE b
Max(a, b) == IF a > b THEN a ELSE b

\* JavaScript numbers that are not integers are kept as fractions n/d, d > 0.
Rat(n, d) == [n |-> n, d |-> d]
RatMul(a, b) == Rat(a.n * b.n, a.d * b.d)
RatDiv(a, b) == Rat(a.n * b.d, a.d * b.n)
RatSub(a, b) == Rat(a.n * b.d - b.n * a.d, a.d * b.d)
RatAdd(a, b) == Rat(a.n * b.d + b.n * a.d, a.d * b.d)
RatGT(a, b) == a.n * b.d > b.n * a.d
RatLE(a, b) == a.n * b.d <= b.n * a.d
RatEQ(a, b) == a.n * b.d = b.n * a.d

\* ------------------------------------------------------------ page layout
\* document.body.scrollHeight for a viewport of height h.
scrollHeight(h) ==
    IF bodyHeight = 0 THEN (scrollLengthHSV * h) \div 100 ELSE bodyHeight

\* document.body.scrollHeight - window.innerHeight
maxScrollAt(h) == scrollHeight(h) - h

\* The range window.scrollY can take.
Extent(h) == Max(0, maxScrollAt(h))

\* window.scrollTo(0, y): y is clamped; a scroll event is queued if the offset moved.
scrollTo(w, y, h) ==
    LET ny == Min(Extent(h), Max(0, y))
    IN  IF ny = w.scrollY
        THEN w
        ELSE [w EXCEPT !.scrollY = ny, !.pendingScroll = @ \cup {"program"}]

\* -------------------------------------------------------------- rendering
\* Mutant of CoverCrop: the comparison of the two ratios is reversed.
CoverCrop_reversed(cw, ch, iw, ih) ==
    LET targetRatio == Rat(cw, ch)
        imgRatio == Rat(iw, ih)
    IN  IF RatGT(targetRatio, imgRatio)
        THEN LET sh == Rat(ih, 1)
                 sw == RatMul(Rat(ih, 1), targetRatio)
             IN  [sx |-> RatDiv(RatSub(Rat(iw, 1), sw), Rat(2, 1)),
                  sy |-> Rat(0, 1), sw |-> sw, sh |-> sh]
        ELSE LET sw == Rat(iw, 1)
                 sh == RatDiv(Rat(iw, 1), targetRatio)
             IN  [sx |-> Rat(0, 1),
                  sy |-> RatDiv(RatSub(Rat(ih, 1), sh), Rat(2, 1)),
                  sw |-> sw, sh |-> sh]

\* The cover-fit source rectangle of renderFrame.
CoverCrop(cw, ch, iw, ih) ==
    LET targetRatio == Rat(cw, ch)
        imgRatio == Rat(iw, ih)
    IN  IF RatGT(imgRatio, targetRatio)
        THEN LET sh == Rat(ih, 1)
                 sw == RatMul(Rat(ih, 1), targetRatio)
             IN  [sx |-> RatDiv(RatSub(Rat(iw, 1), sw), Rat(2, 1)),
                  sy |-> Rat(0, 1), sw |-> sw, sh |-> sh]
        ELSE LET sw == Rat(iw, 1)
                 sh == RatDiv(Rat(iw, 1), targetRatio)
             IN  [sx |-> Rat(0, 1),
                  sy |-> RatDiv(RatSub(Rat(ih, 1), sh), Rat(2, 1)),
                  sw |-> sw, sh |-> sh]

\* The index renderFrame looks up: Math.round, then the clamp.
renderIndex(index) ==
    IF index < 0 THEN 0
    ELSE IF index >= frameCount THEN frameCount - 1
    ELSE index

\* Mutant of renderFrame: the canvas is cleared before the image is looked at.
renderFrame_clearsFirst(w, index) ==
    LET i == renderIndex(index)
        img == w.images[i]
        w0 == [w EXCEPT !.canvas.shown = Blank]
    IN  IF img = "loading"
        THEN w0
        ELSE IF img = "broken"
        THEN [w0 EXCEPT !.threw = TRUE]
        ELSE [w0 EXCEPT !.canvas.shown = i,
                        !.canvas.src = CoverCrop(w.canvas.width, w.canvas.height,
                                                 imgSize.w, imgSize.h)]

renderFrame(w, index) ==
    LET i == renderIndex(index)
        img == w.images[i]
    IN  IF img = "loading"
        THEN w
        ELSE IF img = "broken"
        THEN [w EXCEPT !.canvas.shown = Blank, !.threw = TRUE]
        ELSE [w EXCEPT !.canvas.shown = i,
                       !.canvas.src = CoverCrop(w.canvas.width, w.canvas.height,
                                                imgSize.w, imgSize.h)]

\* state.phase = p
setPhase(w, p) == [w EXCEPT !.phase = p, !.phaseLog = Append(@, p)]

\* -------------------------------------------------------- animation engine
\* Mutant of introComplete: the replay's callback pasted in (the phase goes to MANUAL).
introComplete_asReplay(w) ==
    [setPhase(w, "MANUAL") EXCEPT !.noScroll = FALSE]

\* Mutant of introComplete: the scroll lock is not removed.
introComplete_keepsLock(w) ==
    setPhase(w, "WAITING_FOR_REPLAY")

introComplete(w) ==
    [setPhase(w, "WAITING_FOR_REPLAY") EXCEPT !.noScroll = FALSE]

\* Mutant of replayComplete: the intro's callback pasted in (the phase goes back to
\* WAITING_FOR_REPLAY).
replayComplete_asIntro(w) ==
    [setPhase(w, "WAITING_FOR_REPLAY") EXCEPT !.noScroll = FALSE]

replayComplete(w) ==
    [setPhase(w, "MANUAL") EXCEPT !.noScroll = FALSE]

onComplete(w, cb) ==
    IF cb = "intro" THEN introComplete(w) ELSE replayComplete(w)

\* Mutant of animateScroll: the return after the immediate onComplete is missing.
animateScroll_noReturn(w, targetY, cb, t) ==
    LET startY == w.scrollY
        dist == targetY - startY
        w1 == IF dist = 0 THEN onComplete(w, cb) ELSE w
    IN  [w1 EXCEPT !.rafQueue = Append(@, [startY |-> startY, dist |-> dist,
                                           startTime |-> t, cb |-> cb]),
                   !.rafId = @ + 1]

animateScroll(w, targetY, cb, t) ==
    LET startY == w.scrollY
        dist == targetY - startY
    IN  IF dist = 0
        THEN onComplete(w, cb)
        ELSE [w EXCEPT !.rafQueue = Append(@, [startY |-> startY, dist |-> dist,
                                               startTime |-> t, cb |-> cb]),
                       !.rafId = @ + 1]

\* Mutant of loop: the last tick does not scroll (scrollTo only while progress < 1).
loop_noFinalScroll(w, lp, time, h) ==
    LET elapsed == time - lp.startTime
        progress == Min(duration, elapsed)
        newY == lp.startY + ((lp.dist * progress) \div duration)
    IN  IF progress < duration
        THEN [scrollTo(w, newY, h) EXCEPT !.rafQueue = Append(@, lp), !.rafId = @ + 1]
        ELSE onComplete(w, lp.cb)

\* Mutant of loop: the else is missing, a finished loop is requested again.
loop_rescheduled(w, lp, time, h) ==
    LET elapsed == time - lp.startTime
        progress == Min(duration, elapsed)
        newY == lp.startY + ((lp.dist * progress) \div duration)
        w1 == scrollTo(w, newY, h)
        w2 == [w1 EXCEPT !.rafQueue = Append(@, lp), !.rafId = @ + 1]
    IN  IF progress < duration THEN w2 ELSE onComplete(w2, lp.cb)

\* Mutant of loop: the next frame is not requested while progress < 1.
loop_noReschedule(w, lp, time, h) ==
    LET elapsed == time - lp.startTime
        progress == Min(duration, elapsed)
        newY == lp.startY + ((lp.dist * progress) \div duration)
        w1 == scrollTo(w, newY, h)
    IN  IF progress < duration
        THEN w1
        ELSE onComplete(w1, lp.cb)

\* One run of the closure `loop` of animateScroll, called with timestamp `time`.
\* progress is kept as elapsed ms capped at duration (progress = that / duration);
\* an offset that is not a whole pixel is truncated by scrollTo.
loop(w, lp, time, h) ==
    LET elapsed == time - lp.startTime
        progress == Min(duration, elapsed)
        newY == lp.startY + ((lp.dist * progress) \div duration)
        w1 == scrollTo(w, newY, h)
    IN  IF progress < duration
        THEN [w1 EXCEPT !.rafQueue = Append(@, lp), !.rafId = @ + 1]
        ELSE onComplete(w1, lp.cb)

\* --------------------------------------------------------------- logic flow
\* Mutant of startIntro: the degenerate branch returns without removing the lock.
startIntro_keepsLock(w, h, t) ==
    LET w1 == [setPhase(w, "INTRO") EXCEPT !.noScroll = TRUE]
        w2 == scrollTo(w1, 0, h)
        maxScroll == maxScrollAt(h)
    IN  IF maxScroll <= 0
        THEN setPhase(w2, "WAITING_FOR_REPLAY")
        ELSE animateScroll(w2, maxScroll, "intro", t)

startIntro(w, h, t) ==
    LET w1 == [setPhase(w, "INTRO") EXCEPT !.noScroll = TRUE]
        w2 == scrollTo(w1, 0, h)
        maxScroll == maxScrollAt(h)
    IN  IF maxScroll <= 0
        THEN [setPhase(w2, "WAITING_FOR_REPLAY") EXCEPT !.noScroll = FALSE]
        ELSE animateScroll(w2, maxScroll, "intro", t)

onAllLoaded(w, h, t) ==
    IF w.phase = "LOADING" THEN startIntro(w, h, t) ELSE w

triggerReplay(w, h, t) ==
    IF w.phase # "WAITING_FOR_REPLAY"
    THEN w
    ELSE LET w1 == [setPhase(w, "REPLAY_PLAYING") EXCEPT !.noScroll = TRUE,
                             !.replayCount = @ + 1]
             w2 == scrollTo(w1, 0, h)
             maxScroll == maxScrollAt(h)
         IN  animateScroll(w2, maxScroll, "replay", t)

\* Mutant of FrameIndex: progress is scaled by the frame count, not by the last index.
FrameIndex_byCount(scrollTop, maxScroll, n) ==
    LET clamped == Min(maxScroll, Max(0, scrollTop))
    IN  (clamped * n) \div maxScroll

\* The frame the scroll listener derives from the scroll offset, for n frames.
FrameIndex(scrollTop, maxScroll, n) ==
    LET clamped == Min(maxScroll, Max(0, scrollTop))
    IN  (clamped * (n - 1)) \div maxScroll

\* Mutant of scrollListener: a degenerate extent is treated as progress 0 instead of
\* returning.
scrollListener_zeroProgress(w, h, t) ==
    LET scrollTop == w.scrollY
        maxScroll == maxScrollAt(h)
        frameIndex == IF maxScroll <= 0 THEN 0
                      ELSE FrameIndex(scrollTop, maxScroll, frameCount)
        w1 == renderFrame([w EXCEPT !.currentFrame = frameIndex], frameIndex)
    IN  IF w1.threw
        THEN w1
        ELSE IF w1.phase = "WAITING_FOR_REPLAY"
        THEN triggerReplay(w1, h, t)
        ELSE w1

scrollListener(w, h, t) ==
    LET scrollTop == w.scrollY
        maxScroll == maxScrollAt(h)
    IN  IF maxScroll <= 0
        THEN w
        ELSE LET frameIndex == FrameIndex(scrollTop, maxScroll, frameCount)
                 afterRender(w1) ==
                     IF w1.threw
                     THEN w1
                     ELSE IF w1.phase = "WAITING_FOR_REPLAY"
                     THEN triggerReplay(w1, h, t)
                     ELSE w1
                 \* renderFrame runs once; what follows works on its result.
                 rendered == {renderFrame([w EXCEPT !.currentFrame = frameIndex],
                                          frameIndex)}
             IN  CHOOSE r \in {afterRender(w1) : w1 \in rendered} : TRUE

\* Mutant of interactionHandler: the phase test names the wrong phase.
interactionHandler_wrongPhase(w, h, t) ==
    IF w.phase = "INTRO" THEN triggerReplay(w, h, t) ELSE w

interactionHandler(w, h, t) ==
    IF w.phase = "WAITING_FOR_REPLAY" THEN triggerReplay(w, h, t) ELSE w

wheelListener(w) == w

resize(w, wd, h) ==
    renderFrame([w EXCEPT !.canvas = [width |-> wd, height |-> h, shown |-> Blank,
                                      src |-> @.src]],
                w.currentFrame)

\* Mutant of onload: the count is compared one too low.
onload_offByOne(w, i, h, t) ==
    LET w1 == [w EXCEPT !.loadedCount = @ + 1]
        w2 == IF i = 0 THEN renderFrame(w1, 0) ELSE w1
    IN  IF w2.loadedCount >= frameCount - 1 THEN onAllLoaded(w2, h, t) ELSE w2

\* img.onload of frame i
onload(w, i, h, t) ==
    LET w1 == [w EXCEPT !.loadedCount = @ + 1]
        w2 == IF i = 0 THEN renderFrame(w1, 0) ELSE w1
    IN  IF w2.loadedCount = frameCount THEN onAllLoaded(w2, h, t) ELSE w2

\* ---------------------------------------------------------------- actions
NoCrop == [sx |-> Rat(0, 1), sy |-> Rat(0, 1), sw |-> Rat(0, 1), sh |-> Rat(0, 1)]

Init ==
    /\ images = [i \in Frames |-> "loading"]
    /\ loadedCount = 0
    /\ currentFrame = 0
    /\ phase = "LOADING"
    /\ rafId = 0
    /\ noScroll = FALSE
    /\ scrollY = 0
    /\ pendingScroll = {}
    /\ rafQueue = << >>
    /\ innerWidth \in InnerWidths
    /\ innerHeight \in InnerHeights
    /\ bodyHeight \in {0} \cup CollapsedHeights
    /\ imgSize = FrameSize
    /\ canvas = [width |-> innerWidth, height |-> innerHeight, shown |-> Blank,
                 src |-> NoCrop]
    /\ threw = FALSE
    /\ replayCount = 0
    /\ phaseLog = <<"LOADING">>
    /\ now = 0
    /\ lastEvent = "init"

Begin == [W EXCEPT !.threw = FALSE]

\* Frame i finishes loading: its onload handler runs.
LoadOk(i) ==
    /\ images[i] = "loading"
    /\ \E w0 \in {[Begin EXCEPT !.images[i] = "loaded"]} :
           Commit(onload(w0, i, innerHeight, now))
    /\ lastEvent' = "load"
    /\ UNCHANGED <<env, now>>

\* The load of frame i fails: the image is broken; no handler is registered.
LoadError(i) ==
    /\ images[i] = "loading"
    /\ images' = [images EXCEPT ![i] = "broken"]
    /\ lastEvent' = "error"
    /\ UNCHANGED <<loadedCount, currentFrame, phase, rafId, noScroll, scrollY,
                   pendingScroll, rafQueue, canvas, threw, replayCount, phaseLog, env,
                   now>>

\* The next animation frame: time has advanced and the oldest pending callback runs.
Tick(k) ==
    /\ rafQueue # << >>
    /\ now' = now + k * TickStep
    /\ \E w0 \in {[Begin EXCEPT !.rafQueue = Tail(@)]} :
           Commit(loop(w0, Head(rafQueue), now', innerHeight))
    /\ lastEvent' = "tick"
    /\ UNCHANGED env

\* The queued scroll event is delivered to the scroll listener.
ScrollEvent ==
    /\ pendingScroll # {}
    /\ \E w0 \in {[Begin EXCEPT !.pendingScroll = {}]} :
           Commit(scrollListener(w0, innerHeight, now))
    /\ lastEvent' = "scroll"
    /\ UNCHANGED <<env, now>>

\* The user scrolls the page.  body.no-scroll is taken to do what its name says:
\* while it is set the user cannot scroll; in every other state, LOADING included,
\* the page scrolls freely.
UserScroll(k) ==
    /\ ~noScroll
    /\ LET y == (k * Extent(innerHeight)) \div ScrollSteps
       IN  /\ y # scrollY
           /\ scrollY' = y
    /\ pendingScroll' = pendingScroll \cup {"user"}
    /\ lastEvent' = "userscroll"
    /\ UNCHANGED <<images, loadedCount, currentFrame, phase, rafId, noScroll,
                   rafQueue, canvas, threw, replayCount, phaseLog, env,
                   now>>

Click ==
    /\ \E w0 \in {Begin} : Commit(interactionHandler(w0, innerHeight, now))
    /\ lastEvent' = "click"
    /\ UNCHANGED <<env, now>>

TouchStart ==
    /\ \E w0 \in {Begin} : Commit(interactionHandler(w0, innerHeight, now))
    /\ lastEvent' = "touchstart"
    /\ UNCHANGED <<env, now>>

Wheel ==
    /\ Commit(wheelListener(Begin))
    /\ lastEvent' = "wheel"
    /\ UNCHANGED <<env, now>>

\* No keydown listener is registered.
KeyDown ==
    /\ lastEvent' = "keydown"
    /\ UNCHANGED <<images, loadedCount, currentFrame, phase, rafId, noScroll, scrollY,
                   pendingScroll, rafQueue, canvas, threw, replayCount, phaseLog, env,
                   now>>

\* The window is resized: the page is laid out again (the offset is clamped to the
\* new extent), then the resize listener runs.
Resize(wd, h) ==
    /\ <<wd, h>> # <<innerWidth, innerHeight>>
    /\ innerWidth' = wd
    /\ innerHeight' = h
    /\ LET ny == Min(scrollY, Extent(h))
       IN  \E w0 \in {[Begin EXCEPT !.scrollY = ny,
                                     !.pendingScroll = IF ny = scrollY THEN @
                                                       ELSE @ \cup {"layout"}]} :
               Commit(resize(w0, wd, h))
    /\ lastEvent' = "resize"
    /\ UNCHANGED <<bodyHeight, imgSize, now>>

Next ==
    \/ \E i \in Frames : LoadOk(i)
    \/ \E i \in Frames : LoadError(i)
    \/ \E k \in 1 .. MaxTickMult : Tick(k)
    \/ ScrollEvent
    \/ \E k \in 0 .. ScrollSteps : UserScroll(k)
    \/ Click
    \/ TouchStart
    \/ Wheel
    \/ KeyDown
    \/ \E wd \in InnerWidths, h \in InnerHeights : Resize(wd, h)

Spec == Init /\ [][Next]_vars

\* The browser delivers what it has queued: every pending load settles (with a load
\* or an error), every requested animation frame is run, every queued scroll event
\* is dispatched.  User input and resizes are not forced to happen.
Settle == \E i \in Frames : LoadOk(i) \/ LoadError(i)
Frame == \E k \in 1 .. MaxTickMult : Tick(k)
FairSpec ==
    Spec /\ WF_vars(Settle) /\ WF_vars(Frame) /\ WF_vars(ScrollEvent)

\* The run in which every frame loads: no load fails; the user may click, touch,
\* scroll and resize; the browser delivers what it has queued.
PlayNext ==
    \/ \E i \in Frames : LoadOk(i)
    \/ \E k \in 1 .. MaxTickMult : Tick(k)
    \/ ScrollEvent
    \/ \E k \in 0 .. ScrollSteps : UserScroll(k)
    \/ Click
    \/ TouchStart
    \/ \E wd \in InnerWidths, h \in InnerHeights : Resize(wd, h)

Loaded == \E i \in Frames : LoadOk(i)
PlaySpec ==
    /\ Init
    /\ [][PlayNext]_vars
    /\ WF_vars(Loaded)
    /\ WF_vars(Frame)
    /\ WF_vars(ScrollEvent)

\* The same handlers on every small canvas and frame size: the first frame loads and
\* is drawn, and the window is resized to any size.
CropInit ==
    /\ images = [i \in Frames |-> "loading"]
    /\ loadedCount = 0
    /\ currentFrame = 0
    /\ phase = "LOADING"
    /\ rafId = 0
    /\ noScroll = FALSE
    /\ scrollY = 0
    /\ pendingScroll = {}
    /\ rafQueue = << >>
    /\ innerWidth \in 1 .. MaxDim
    /\ innerHeight \in 1 .. MaxDim
    /\ bodyHeight = 0
    /\ imgSize \in [w : 1 .. MaxDim, h : 1 .. MaxDim]
    /\ canvas = [width |-> innerWidth, height |-> innerHeight, shown |-> Blank,
                 src |-> NoCrop]
    /\ threw = FALSE
    /\ replayCount = 0
    /\ phaseLog = <<"LOADING">>
    /\ now = 0
    /\ lastEvent = "init"

CropNext ==
    \/ LoadOk(0)
    \/ \E wd \in 1 .. MaxDim, h \in 1 .. MaxDim : Resize(wd, h)

SpecCrop == CropInit /\ [][CropNext]_vars

\* ------------------------------------------------------------- properties
maxScroll == maxScrollAt(innerHeight)
AllSettled == \A i \in Frames : images[i] # "loading"

Interaction == {"click", "touchstart"}
\* The closure whose run a tick step is, and the offset it animates to.
head == Head(rafQueue)
target == head.startY + head.dist
\* A step in which an animation's completion callback runs from a tick.
Completes(from, to) ==
    /\ lastEvent' = "tick"
    /\ phase = from
    /\ phase' = to

\* C1: a failed image load is counted as settled: once every frame's load has
\* completed or failed, state.loadedCount equals CONFIG.frameCount.
C1_FailedLoadCounted == AllSettled => loadedCount = frameCount

\* C2: once every frame's load request has settled (loaded or errored), the phase
\* eventually leaves LOADING.
C2_LeavesLoading == AllSettled ~> (phase # "LOADING")

\* C3: triggerReplay passes its guard exactly once: never twice, once for a click or
\* touchstart handled in WAITING_FOR_REPLAY, and every click, touchstart or scroll
\* event handled in REPLAY_PLAYING or MANUAL starts no animation and changes neither
\* the phase nor the scroll lock.
C3_ReplayOnce ==
    [][/\ replayCount' <= 1
       /\ (phase = "WAITING_FOR_REPLAY" /\ lastEvent' \in Interaction)
            => replayCount' = 1
       /\ (phase \in {"REPLAY_PLAYING", "MANUAL"}
             /\ lastEvent' \in Interaction \cup {"scroll"})
            => /\ replayCount' = 1
               /\ phase' = phase
               /\ noScroll' = noScroll
               /\ rafQueue' = rafQueue
               /\ rafId' = rafId]_vars

C3_Witness ==
    /\ phase = "MANUAL"
    /\ lastEvent = "click"
    /\ replayCount = 1

\* C4: the phase leaves WAITING_FOR_REPLAY only in response to a user interaction
\* (click, touchstart or a scroll the user made); a scroll event that only the
\* program's own window.scrollTo calls produced never starts the replay.
C4_OnlyUserStartsReplay ==
    [][(phase = "WAITING_FOR_REPLAY" /\ phase' # "WAITING_FOR_REPLAY")
         => \/ lastEvent' \in Interaction
            \/ (lastEvent' = "scroll" /\ "user" \in pendingScroll)]_vars

\* C5 as claimed: in WAITING_FOR_REPLAY an event of every listed kind (click,
\* touch-start, wheel, key-down, scroll) moves the phase to REPLAY_PLAYING, locks
\* page scrolling and starts the replay animation.
C5_EveryKindStartsReplay ==
    [][(phase = "WAITING_FOR_REPLAY"
          /\ lastEvent' \in {"click", "touchstart", "wheel", "keydown", "scroll"})
         => /\ phase' = "REPLAY_PLAYING"
            /\ noScroll'
            /\ Len(rafQueue') = Len(rafQueue) + 1]_vars

\* C5 amended: in WAITING_FOR_REPLAY a click, a touchstart, or a scroll event
\* delivered with maxScroll > 0 moves the phase to REPLAY_PLAYING, locks page
\* scrolling and schedules the replay loop towards maxScroll; when maxScroll is 0
\* the replay completes inside the handler instead, which ends in MANUAL, unlocked,
\* with no loop scheduled.  A wheel or key-down event changes neither the phase,
\* the lock nor the scheduled loops.
C5_ClickTouchScrollStartReplay ==
    [][phase = "WAITING_FOR_REPLAY"
         => /\ (lastEvent' \in Interaction \/ (lastEvent' = "scroll" /\ maxScroll > 0))
                => IF maxScroll = 0
                   THEN /\ phase' = "MANUAL"
                        /\ ~noScroll'
                        /\ rafQueue' = rafQueue
                   ELSE /\ phase' = "REPLAY_PLAYING"
                        /\ noScroll'
                        /\ scrollY' = 0
                        /\ rafQueue' = Append(rafQueue,
                               [startY |-> 0, dist |-> maxScroll,
                                startTime |-> now, cb |-> "replay"])
            /\ lastEvent' \in {"wheel", "keydown"}
                => /\ phase' = phase
                   /\ noScroll' = noScroll
                   /\ rafQueue' = rafQueue]_vars

C5_Witness ==
    /\ phase = "REPLAY_PLAYING"
    /\ lastEvent = "touchstart"
    /\ noScroll
    /\ Len(rafQueue) = 1

C7_DegenerateScrollNoOp ==
    [][(lastEvent' = "scroll" /\ maxScroll <= 0)
         => /\ currentFrame' = currentFrame
            /\ canvas' = canvas
            /\ phase' = phase
            /\ ~threw']_vars

C7_Witness ==
    /\ lastEvent = "scroll"
    /\ maxScroll <= 0
    /\ currentFrame # 0

\* C8: for every scroll offset and every maxScroll > 0 the scroll listener sets
\* state.currentFrame to floor(clamp(scrollTop/maxScroll,0,1)*(frameCount-1)), an
\* integer in [0, frameCount-1]; when the frame's image is loaded renderFrame draws
\* exactly that index; and with 145 frames progress 0 gives frame 0, progress 1
\* frame 144 and progress 0.5 frame 72.
C8_ScrollDrivesFrame ==
    [][(lastEvent' = "scroll" /\ maxScroll > 0)
         => LET c == Min(maxScroll, Max(0, scrollY))
                f == FrameIndex(scrollY, maxScroll, ConfigFrameCount)
            IN  /\ currentFrame' \in 0 .. (frameCount - 1)
                /\ currentFrame' * maxScroll <= c * (frameCount - 1)
                /\ c * (frameCount - 1) < (currentFrame' + 1) * maxScroll
                /\ images[currentFrame'] = "loaded" => canvas'.shown = currentFrame'
                /\ images[currentFrame'] = "loading" => canvas' = canvas
                /\ f \in 0 .. (ConfigFrameCount - 1)
                /\ scrollY = 0 => f = 0
                /\ scrollY = maxScroll => f = 144
                /\ 2 * scrollY = maxScroll => f = 72]_vars

C8_Witness ==
    /\ lastEvent = "scroll"
    /\ maxScroll > 0
    /\ 2 * scrollY = maxScroll
    /\ currentFrame = (frameCount - 1) \div 2
    /\ canvas.shown = currentFrame

\* C9: for every positive canvas size and image size the crop rectangle of
\* renderFrame has the canvas aspect ratio, lies inside the image and is centred
\* on the cropped axis.
C9_CropInsideImage ==
    canvas.shown # Blank
      => LET r == canvas.src
             cw == Rat(canvas.width, 1)
             ch == Rat(canvas.height, 1)
             iw == Rat(imgSize.w, 1)
             ih == Rat(imgSize.h, 1)
             zero == Rat(0, 1)
         IN  /\ RatEQ(RatMul(r.sw, ch), RatMul(r.sh, cw))
             /\ RatLE(zero, r.sx)
             /\ RatLE(zero, r.sy)
             /\ RatGT(r.sw, zero)
             /\ RatGT(r.sh, zero)
             /\ RatLE(RatAdd(r.sx, r.sw), iw)
             /\ RatLE(RatAdd(r.sy, r.sh), ih)
             /\ RatEQ(RatAdd(RatAdd(r.sx, r.sw), r.sx), iw)
             /\ RatEQ(RatAdd(RatAdd(r.sy, r.sh), r.sy), ih)

C9_Witness ==
    /\ canvas.shown = 0
    /\ lastEvent = "resize"
    /\ RatGT(canvas.src.sx, Rat(0, 1))
    /\ canvas.width # canvas.height

\* C10: MANUAL is terminal: once the phase is MANUAL no event changes the phase or
\* the scroll lock, and state.currentFrame changes only in the scroll listener.
C10_ManualTerminal ==
    [][phase = "MANUAL"
         => /\ phase' = "MANUAL"
            /\ noScroll' = noScroll
            /\ currentFrame' # currentFrame => lastEvent' = "scroll"]_vars

C10_Witness ==
    /\ phase = "MANUAL"
    /\ lastEvent = "scroll"
    /\ ~noScroll
    /\ maxScroll > 0
    /\ currentFrame = 0
    /\ scrollY = 0
    /\ pendingScroll = {}

\* Number of times startIntro ran (it sets the phase to INTRO as it starts).
introCount == Cardinality({i \in DOMAIN phaseLog : phaseLog[i] = "INTRO"})
PhaseOrder ==
    <<"LOADING", "INTRO", "WAITING_FOR_REPLAY", "REPLAY_PLAYING", "MANUAL">>

\* C11: the LOADING -> INTRO transition fires exactly once and only when all frames
\* have loaded: startIntro runs at most once, and whenever the phase is not LOADING
\* it has run once and state.loadedCount equals CONFIG.frameCount.
C11_IntroOnceAllLoaded ==
    /\ introCount <= 1
    /\ phase = "LOADING" => introCount = 0
    /\ phase # "LOADING" => (introCount = 1 /\ loadedCount = frameCount)

C11_Witness ==
    /\ phase = "INTRO"
    /\ lastEvent = "load"
    /\ loadedCount = frameCount
    /\ rafQueue # << >>

\* C12: phase transitions are one-way: the values given to state.phase follow
\* LOADING, INTRO, WAITING_FOR_REPLAY, REPLAY_PLAYING, MANUAL in this order, with
\* no step back and none left out.
C12_PhasesInOrder ==
    /\ Len(phaseLog) <= Len(PhaseOrder)
    /\ \A i \in DOMAIN phaseLog : phaseLog[i] = PhaseOrder[i]
    /\ phase = phaseLog[Len(phaseLog)]

C12_Witness ==
    /\ phase = "MANUAL"
    /\ phaseLog = PhaseOrder
    /\ lastEvent = "click"
    /\ rafId = 0

\* The phase an animation's completion callback sets.
cbPhase(cb) == IF cb = "intro" THEN "WAITING_FOR_REPLAY" ELSE "MANUAL"

\* C13: each call of animateScroll invokes its completion callback exactly once: a
\* tick before progress 1 requests the loop again and invokes nothing; the tick that
\* reaches progress 1 invokes the callback once and requests nothing; a call with
\* distance 0 invokes it at once and requests no tick; and every requested loop
\* reaches its last tick.
C13_CompletesOnce ==
    /\ [][/\ lastEvent' = "tick"
            => IF now' - head.startTime >= duration
               THEN /\ phaseLog' = Append(phaseLog, cbPhase(head.cb))
                    /\ rafQueue' = Tail(rafQueue)
                    /\ rafId' = rafId
               ELSE /\ phaseLog' = phaseLog
                    /\ rafQueue' = Append(Tail(rafQueue), head)
                    /\ rafId' = rafId + 1
          /\ (lastEvent' \in Interaction /\ phase = "WAITING_FOR_REPLAY")
            => IF maxScroll = 0
               THEN /\ phaseLog' = phaseLog \o <<"REPLAY_PLAYING", "MANUAL">>
                    /\ rafQueue' = rafQueue
                    /\ rafId' = rafId
               ELSE /\ phaseLog' = Append(phaseLog, "REPLAY_PLAYING")
                    /\ Len(rafQueue') = Len(rafQueue) + 1
                    /\ rafId' = rafId + 1]_vars
    /\ [](Len(rafQueue) <= 1)
    /\ (rafQueue # << >>) ~> (rafQueue = << >>)

C13_Witness ==
    /\ lastEvent = "tick"
    /\ phase = "MANUAL"
    /\ rafQueue = << >>
    /\ now = 2 * duration
    /\ rafId = 4

\* The frame the scroll listener computes for the current offset and extent.
scrollFrame == FrameIndex(scrollY, maxScroll, frameCount)

\* C14: while the phase is LOADING no input moves the frame pointer:
\* state.currentFrame stays 0 until the phase has left LOADING.
C14_LoadingKeepsFrame == phase = "LOADING" => currentFrame = 0

\* C15: when startIntro finds maxScroll <= 0 it starts no animation and ends in
\* WAITING_FOR_REPLAY with scrolling unlocked; a click or touch in that state ends in
\* MANUAL with scrolling unlocked, at once when maxScroll = 0 and otherwise when the
\* replay it started has run, so the page is never left locked.
C15_DegenerateExtentUnlocks ==
    /\ [][/\ (lastEvent' = "load" /\ phase = "LOADING" /\ phase' # "LOADING"
                /\ maxScroll <= 0)
            => /\ phase' = "WAITING_FOR_REPLAY"
               /\ ~noScroll'
               /\ rafQueue' = << >>
               /\ rafId' = rafId
               /\ scrollY' = 0
          /\ (lastEvent' \in Interaction /\ phase = "WAITING_FOR_REPLAY"
                /\ maxScroll = 0)
            => /\ phase' = "MANUAL"
               /\ ~noScroll'
               /\ rafQueue' = << >>]_vars
    /\ (lastEvent \in Interaction /\ phase = "REPLAY_PLAYING" /\ maxScroll <= 0)
         ~> (phase = "MANUAL" /\ ~noScroll)

C15_Witness ==
    /\ lastEvent = "click"
    /\ phase = "MANUAL"
    /\ ~noScroll
    /\ maxScroll = 0
    /\ phaseLog = PhaseOrder
    /\ now = 0

\* C16: renderFrame is a no-op when the image at the clamped index has not finished
\* loading: called with any index it returns the state unchanged; a scroll event that
\* selects such a frame leaves the canvas as it was and throws nothing; a resize with
\* such a current frame only resets the canvas through its new size.
C16_UnloadedFrameNoOp ==
    /\ [](\A index \in -1 .. frameCount :
            images[renderIndex(index)] = "loading" => renderFrame(W, index) = W)
    /\ [][/\ (lastEvent' = "scroll" /\ maxScroll > 0
                /\ images[scrollFrame] = "loading")
            => /\ currentFrame' = scrollFrame
               /\ canvas' = canvas
               /\ ~threw'
          /\ (lastEvent' = "resize" /\ images[renderIndex(currentFrame)] = "loading")
            => /\ canvas' = [width |-> innerWidth', height |-> innerHeight',
                             shown |-> Blank, src |-> canvas.src]
               /\ ~threw']_vars

C16_Witness ==
    /\ lastEvent = "scroll"
    /\ currentFrame = 1
    /\ images[1] = "loading"
    /\ canvas.shown = 0

\* C17: rendering a frame whose load failed is a silent no-op: a scroll event that
\* selects such a frame neither clears the canvas nor draws, so the canvas still
\* shows the frame drawn last.
C17_BrokenFrameKeepsCanvas ==
    [][(lastEvent' = "scroll" /\ maxScroll > 0 /\ images[scrollFrame] = "broken")
         => canvas' = canvas]_vars

\* C18: between event handlers the body carries no-scroll if and only if the phase is
\* INTRO or REPLAY_PLAYING.
C18_LockIffAnimating == noScroll <=> phase \in {"INTRO", "REPLAY_PLAYING"}

C18_Witness ==
    /\ phase = "REPLAY_PLAYING"
    /\ noScroll
    /\ lastEvent = "tick"
    /\ scrollY > 0

\* C19: at most one animation loop is pending at any time, a loop is pending only
\* while the phase is INTRO or REPLAY_PLAYING (and it is that phase's loop), and a
\* loop is started only when none is pending.
C19_OneAnimation ==
    /\ [](/\ Len(rafQueue) <= 1
          /\ rafQueue # << >>
               => /\ phase \in {"INTRO", "REPLAY_PLAYING"}
                  /\ head.cb = IF phase = "INTRO" THEN "intro" ELSE "replay")
    /\ [][(lastEvent' # "tick" /\ rafId' # rafId)
            => /\ rafQueue = << >>
               /\ Len(rafQueue') = 1
               /\ rafId' = rafId + 1
               /\ Head(rafQueue').startTime = now]_vars

C19_Witness ==
    /\ lastEvent = "scroll"
    /\ phase = "REPLAY_PLAYING"
    /\ Len(rafQueue) = 1
    /\ head.cb = "replay"
    /\ head.startTime = duration

\* C20: with every frame loading and maxScroll > 0 (the spacer is laid out), under
\* fair delivery of loads, animation frames and scroll events the phase reaches
\* WAITING_FOR_REPLAY, and once a click or touch has started the replay the phase
\* reaches MANUAL with scrolling unlocked.
C20_ReachesManual ==
    /\ (bodyHeight = 0 /\ phase = "LOADING") ~> (phase = "WAITING_FOR_REPLAY")
    /\ (bodyHeight = 0 /\ lastEvent \in Interaction /\ phase = "REPLAY_PLAYING")
         ~> (phase = "MANUAL" /\ ~noScroll)

C20_Witness ==
    /\ bodyHeight = 0
    /\ phase = "MANUAL"
    /\ ~noScroll
    /\ lastEvent = "tick"
    /\ replayCount = 1
    /\ scrollY = maxScroll

====
